---- MODULE Spec2Model ----
(***************************************************************************)
(* Model of scripts/terrain_module.py: the sampling-increment policy, the *)
(* walk along the projected line, the tile extent lookup, the cached      *)
(* dataset load, the pixel lookup and the profile pipeline.               *)
(***************************************************************************)
EXTENDS Integers, Sequences, FiniteSets, TLC

VARIABLES
    pc,                 \* position of the running function
    dem_folder,         \* the tile paths glob finds in the DEM folder, in glob order
    line,               \* line['geometry']['coordinates']
    extents,            \* dict of load_extents, entries in insertion order
    length,             \* int(line_geometry.length)
    increment,          \* determine_length_increment(length)
    currentdistance,    \* loop variable of the for loop over range(0, length, increment)
    positions,          \* distances handed to line_geometry.interpolate, in order
    nsamples,           \* number of iterations of the for loop
    x,                  \* list x of terrain_module
    y,                  \* list y of terrain_module
    elevation_profile,  \* list elevation_profile of terrain_module
    cache,              \* entries of load_dataset's lru_cache, least recently used first
    opens,              \* per tile path, the number of rasterio.open calls made by load_dataset
    ret,                \* outcome of the last call: what it returned or raised
    lastUse,            \* per tile path, the time of its last load_dataset call (0: never)
    clock,              \* number of load_dataset calls so far
    repeats             \* number of load_dataset calls made for an already seen path

walkVars == <<length, increment, currentdistance, positions, nsamples>>
inputVars == <<dem_folder, line>>
listVars == <<x, y, elevation_profile>>
cacheVars == <<cache, opens, lastUse, clock>>

vars == <<pc, dem_folder, line, extents, length, increment, currentdistance,
          positions, nsamples, x, y, elevation_profile, cache, opens, ret,
          lastUse, clock, repeats>>

\* ---------------------------------------------------------------- bounds
MaxLength == 121000
MaxWalkLength == 12
MaxWalkIncrement == 5
NumPaths == 34
MaxRepeats == 1
NumDemTiles == 2
Margin == 5
MaxLineSteps == 1

\* -------------------------------------------------- program constants
\* @lru_cache(maxsize=32)
maxsize == 32

\* ------------------------------------------------------- pure functions
Max2(a, b) == IF b > a THEN b ELSE a

\* int(n / d) for n >= 0, d > 0: true division then truncation
IntOfQuotient(n, d) == n \div d

\* faulty variant: the max(..., 1) guard is dropped
determine_length_increment_noguard(len) ==
    IF len >= 60000 THEN IntOfQuotient(len, 600) ELSE IntOfQuotient(len, 100)

\* determine_length_increment: max(length / 100, 1) compares the true quotient
\* with 1 (the quotient is below 1 exactly when length < 100), int() truncates.
determine_length_increment(len) ==
    IF len >= 60000
    THEN IntOfQuotient(len, 600)
    ELSE IF len < 100 THEN 1 ELSE IntOfQuotient(len, 100)

\* faulty variant: range that also yields the stop value
RangeHasNext_inclusive(cur, stop) == cur <= stop

\* one test of the for loop over range(0, length, increment): the loop body runs
\* while the next value is below stop
RangeHasNext(cur, stop) == cur < stop

\* len(range(start, stop, step)) for step > 0
RangeLength(start, stop, step) ==
    IF start < stop THEN 1 + ((stop - 1 - start) \div step) ELSE 0

CeilDiv(a, b) == (a + b - 1) \div b

\* ------------------------------------------------------ raster datasets
Paths == 1..NumPaths

\* rasterio.open(tile_path): tile p is a 2 x 2 grid of 5-unit pixels whose upper
\* left corner is (10 * (p - 1), 10); tiles lie side by side along x.
Dataset(p) ==
    LET t == [a |-> 5, b |-> 0, c |-> 10 * (p - 1), d |-> 0, e |-> -5, f |-> 10]
        w == 2
        h == 2
    IN  [transform |-> t,
         width |-> w,
         height |-> h,
         \* dataset.bounds = (left, bottom, right, top) derived from the transform
         bounds |-> <<t.c, t.f + t.e * h, t.c + t.a * w, t.f>>,
         band |-> [rc \in (0..(h - 1)) \X (0..(w - 1)) |->
                      100 * p + 10 * rc[1] + rc[2]]]

\* ~dataset.transform: the inverse affine map as integer numerators over a
\* positive common denominator
Invert(t) ==
    LET det == t.a * t.e - t.b * t.d
        sg == IF det < 0 THEN -1 ELSE 1
    IN  [a |-> sg * t.e, b |-> sg * (-t.b), c |-> sg * (t.b * t.f - t.e * t.c),
         d |-> sg * (-t.d), e |-> sg * t.a, f |-> sg * (t.d * t.c - t.a * t.f),
         den |-> sg * det]

\* math.floor(n / d) for d > 0
Floor(n, d) == n \div d

\* transform_xy_to_rowcol: col, row = transform * (x, y); floor both
transform_xy_to_rowcol(inv, xx, yy) ==
    LET col == Floor(inv.a * xx + inv.b * yy + inv.c, inv.den)
        row == Floor(inv.d * xx + inv.e * yy + inv.f, inv.den)
    IN  <<row, col>>

\* numpy resolves index i on an axis of n cells: i itself, i + n for a negative
\* i down to -n, IndexError (-1 here) otherwise
NumpyIndex(i, n) ==
    IF 0 <= i /\ i < n THEN i
    ELSE IF -n <= i /\ i < 0 THEN i + n
    ELSE -1

\* band[row, col]
BandAt(value, rc) ==
    LET ds == Dataset(value.path)
        r == NumpyIndex(rc[1], ds.height)
        c == NumpyIndex(rc[2], ds.width)
    IN  IF r < 0 \/ c < 0
        THEN [kind |-> "IndexError", val |-> 0]
        ELSE [kind |-> "return", val |-> value.band[<<r, c>>]]

\* the body of load_dataset: band 1 and the inverse transform of the tile
load_dataset(tile_path) ==
    [path |-> tile_path,
     band |-> Dataset(tile_path).band,
     transform |-> Invert(Dataset(tile_path).transform)]

\* ---------------------------------------------------------- extent index
\* extents[tuple(dataset.bounds)] = tile_path: a known key keeps its place and
\* takes the new value, a new key goes last
DictSet(d, key, value) ==
    IF \E i \in 1..Len(d) : d[i].bounds = key
    THEN [i \in 1..Len(d) |->
             IF d[i].bounds = key THEN [bounds |-> key, path |-> value] ELSE d[i]]
    ELSE Append(d, [bounds |-> key, path |-> value])

RECURSIVE load_extents_from(_, _)
load_extents_from(d, folder) ==
    IF folder = <<>> THEN d
    ELSE load_extents_from(DictSet(d, Dataset(Head(folder)).bounds, Head(folder)),
                           Tail(folder))

\* load_extents
load_extents(folder) == load_extents_from(<<>>, folder)

\* faulty variant: the right and top edges are left out
Contains_halfopen(bounds, xx, yy) ==
    xx >= bounds[1] /\ xx < bounds[3] /\ yy < bounds[4] /\ yy >= bounds[2]

\* the test of get_tile_path_for_point on (left, bottom, right, top)
Contains(bounds, xx, yy) ==
    xx >= bounds[1] /\ xx <= bounds[3] /\ yy <= bounds[4] /\ yy >= bounds[2]

\* get_tile_path_for_point: the first entry, in dictionary order, whose extent
\* holds the point; ValueError when there is none
get_tile_path_for_point(ext, xx, yy) ==
    LET hits == {i \in 1..Len(ext) : Contains(ext[i].bounds, xx, yy)}
    IN  IF hits = {}
        THEN [kind |-> "ValueError", path |-> 0]
        ELSE [kind |-> "return",
              path |-> ext[CHOOSE i \in hits : \A j \in hits : i <= j].path]

\* ------------------------------------------------------------ lru_cache
CacheKeys(c) == {c[i].key : i \in 1..Len(c)}

\* position of the key in the cache, 0 when it is not cached
CacheIndex(c, key) ==
    IF key \in CacheKeys(c) THEN CHOOSE i \in 1..Len(c) : c[i].key = key ELSE 0

\* faulty variant: a hit leaves the recency order alone
lru_hit_notouch(c, i) == c

\* a hit moves the entry to the most recently used end
lru_hit(c, i) ==
    [j \in 1..Len(c) |->
        IF j < i THEN c[j] ELSE IF j < Len(c) THEN c[j + 1] ELSE c[i]]

\* faulty variant: a full cache drops its most recently used entry
lru_miss_dropnewest(c, key, value) ==
    IF Len(c) >= maxsize
    THEN Append(SubSeq(c, 1, Len(c) - 1), [key |-> key, value |-> value])
    ELSE Append(c, [key |-> key, value |-> value])

\* a miss stores the new result as most recently used; a full cache first drops
\* its least recently used entry
lru_miss(c, key, value) ==
    IF Len(c) >= maxsize
    THEN Append(Tail(c), [key |-> key, value |-> value])
    ELSE Append(c, [key |-> key, value |-> value])

\* the value a call of the cached load_dataset returns
CachedValue(c, tile_path) ==
    IF CacheIndex(c, tile_path) > 0
    THEN c[CacheIndex(c, tile_path)].value
    ELSE load_dataset(tile_path)

\* the effect of one call of the cached load_dataset
CachedLoad(tile_path) ==
    LET i == CacheIndex(cache, tile_path)
    IN  /\ cache' = IF i > 0 THEN lru_hit(cache, i)
                    ELSE lru_miss(cache, tile_path, load_dataset(tile_path))
        /\ opens' = IF i > 0 THEN opens ELSE [opens EXCEPT ![tile_path] = @ + 1]
        /\ lastUse' = [lastUse EXCEPT ![tile_path] = clock + 1]
        /\ clock' = clock + 1

\* get_value_from_dem_tile: what it returns or raises
get_value_from_dem_tile(c, tile_path, xx, yy) ==
    LET value == CachedValue(c, tile_path)
    IN  BandAt(value, transform_xy_to_rowcol(value.transform, xx, yy))

\* ---------------------------------------------------------- initial parts
NoRet == [op |-> "none", kind |-> "none", path |-> 0, x |-> 0, y |-> 0, val |-> 0]

InitNoWalk ==
    /\ length = 0
    /\ increment = 0
    /\ currentdistance = 0
    /\ positions = <<>>
    /\ nsamples = 0

InitNoInput ==
    /\ dem_folder = <<>>
    /\ line = <<>>
    /\ extents = <<>>

InitLists ==
    /\ x = <<>>
    /\ y = <<>>
    /\ elevation_profile = <<>>

InitCache ==
    /\ cache = <<>>
    /\ opens = [p \in Paths |-> 0]
    /\ lastUse = [p \in Paths |-> 0]
    /\ clock = 0
    /\ repeats = 0
    /\ ret = NoRet

\* ------------------------------------------------- increment policy runs
InitPolicy ==
    /\ pc = "start"
    /\ length \in 0..MaxLength
    /\ increment = 0
    /\ currentdistance = 0
    /\ positions = <<>>
    /\ nsamples = 0
    /\ InitNoInput /\ InitLists /\ InitCache

\* terrain_module line 47
ComputeIncrement ==
    /\ pc = "start"
    /\ increment' = determine_length_increment(length)
    /\ pc' = "incr"
    /\ UNCHANGED <<length, currentdistance, positions, nsamples>>
    /\ UNCHANGED <<inputVars, extents, listVars, cacheVars, ret, repeats>>

\* terrain_module line 57: the number of values of range(0, length, increment)
CountSamples ==
    /\ pc = "incr"
    /\ nsamples' = RangeLength(0, length, increment)
    /\ pc' = "walked"
    /\ UNCHANGED <<length, increment, currentdistance, positions>>
    /\ UNCHANGED <<inputVars, extents, listVars, cacheVars, ret, repeats>>

NextPolicy == ComputeIncrement \/ CountSamples

SpecPolicy == InitPolicy /\ [][NextPolicy]_vars

\* ------------------------------------------------------------ walk runs
InitWalk ==
    /\ pc = "loop"
    /\ length \in 0..MaxWalkLength
    /\ increment \in 1..MaxWalkIncrement
    /\ currentdistance = 0
    /\ positions = <<>>
    /\ nsamples = 0
    /\ InitNoInput /\ InitLists /\ InitCache

\* one iteration of the for loop, lines 57-58
WalkStep ==
    /\ pc = "loop"
    /\ RangeHasNext(currentdistance, length)
    /\ positions' = Append(positions, currentdistance)
    /\ nsamples' = nsamples + 1
    /\ currentdistance' = currentdistance + increment
    /\ UNCHANGED <<pc, length, increment>>
    /\ UNCHANGED <<inputVars, extents, listVars, cacheVars, ret, repeats>>

\* the range is exhausted
WalkDone ==
    /\ pc = "loop"
    /\ ~RangeHasNext(currentdistance, length)
    /\ pc' = "walked"
    /\ UNCHANGED <<length, increment, currentdistance, positions, nsamples>>
    /\ UNCHANGED <<inputVars, extents, listVars, cacheVars, ret, repeats>>

NextWalk == WalkStep \/ WalkDone

SpecWalk == InitWalk /\ [][NextWalk]_vars

\* ----------------------------------------------------------- cache runs
InitCacheRuns ==
    /\ pc = "ready"
    /\ InitNoWalk /\ InitNoInput /\ InitLists /\ InitCache

\* the tile paths never loaded so far
Unseen == {p \in Paths : lastUse[p] = 0}

\* the paths a repeated call is made for: the least recently used, the middle
\* and the most recently used cached path, and every path loaded and dropped
RepeatTargets ==
    IF cache = <<>> THEN {}
    ELSE {cache[1].key, cache[(Len(cache) + 1) \div 2].key, cache[Len(cache)].key}
         \cup ((Paths \ Unseen) \ CacheKeys(cache))

\* one call load_dataset(tile_path): a path not seen before (tile paths are
\* interchangeable, so the lowest one stands for all) or a path seen before
LoadDatasetCall ==
    /\ pc = "ready"
    /\ \E p \in Paths :
          /\ \/ p \in Unseen /\ \A q \in Unseen : p <= q
             \/ p \in RepeatTargets /\ repeats < MaxRepeats
          /\ CachedLoad(p)
          /\ repeats' = IF p \in Unseen THEN repeats ELSE repeats + 1
          /\ ret' = [op |-> "load_dataset", kind |-> "return", path |-> p,
                     x |-> 0, y |-> 0, val |-> CachedValue(cache, p)]
    /\ UNCHANGED <<pc, inputVars, extents, walkVars, listVars>>

NextCache == LoadDatasetCall

SpecCache == InitCacheRuns /\ [][NextCache]_vars

\* --------------------------------------------------------- sampler runs
\* the orders in which glob may list any of the tiles 1..NumDemTiles
DemFolders ==
    {f \in UNION {[1..n -> 1..NumDemTiles] : n \in 0..NumDemTiles} :
        \A i, j \in DOMAIN f : i # j => f[i] # f[j]}

PointXs == (-Margin)..(10 * NumDemTiles + Margin)
PointYs == (-Margin)..(10 + Margin)

InitSampler ==
    /\ pc = "start"
    /\ dem_folder \in DemFolders
    /\ line = <<>>
    /\ extents = <<>>
    /\ InitNoWalk /\ InitLists /\ InitCache

\* extents = load_extents(dem_folder)
BuildIndex ==
    /\ pc = "start"
    /\ extents' = load_extents(dem_folder)
    /\ pc' = "ready"
    /\ UNCHANGED <<inputVars, walkVars, listVars, cacheVars, ret, repeats>>

\* one call get_tile_path_for_point(extents, x, y)
LocateCall ==
    /\ pc = "ready"
    /\ \E xx \in PointXs, yy \in PointYs :
          LET r == get_tile_path_for_point(extents, xx, yy)
          IN  ret' = [op |-> "get_tile_path_for_point", kind |-> r.kind,
                      path |-> r.path, x |-> xx, y |-> yy, val |-> 0]
    /\ pc' = "called"
    /\ UNCHANGED <<inputVars, extents, walkVars, listVars, cacheVars, repeats>>

\* one call get_value_from_dem_tile(tile_path, x, y) for a tile of the folder
GetValueCall ==
    /\ pc = "ready"
    /\ pc' = "called"
    /\ \E i \in 1..Len(dem_folder), xx \in PointXs, yy \in PointYs :
          LET r == get_value_from_dem_tile(cache, dem_folder[i], xx, yy)
          IN  /\ CachedLoad(dem_folder[i])
              /\ ret' = [op |-> "get_value_from_dem_tile", kind |-> r.kind,
                         path |-> dem_folder[i], x |-> xx, y |-> yy, val |-> r.val]
    /\ UNCHANGED <<inputVars, extents, walkVars, listVars, repeats>>

NextSampler == BuildIndex \/ LocateCall \/ GetValueCall

SpecSampler == InitSampler /\ [][NextSampler]_vars

\* -------------------------------------------------------- pipeline runs
\* pyproj.transform from epsg:4326 to epsg:27700 and back, on this model's
\* integer plane: a shift by the projection's false origin
ll_to_osgb(pt) == <<pt[1] + 400, pt[2] - 100>>
osgb_to_ll(pt) == <<pt[1] - 400, pt[2] + 100>>

\* int(math.sqrt(n))
IntSqrt(n) == CHOOSE r \in 0..n : r * r <= n /\ n < (r + 1) * (r + 1)

\* int(line_geometry.length) of the projected two-point line
ProjectedLength(coords) ==
    LET p == ll_to_osgb(coords[1])
        q == ll_to_osgb(coords[2])
    IN  IntSqrt((q[1] - p[1]) * (q[1] - p[1]) + (q[2] - p[2]) * (q[2] - p[2]))

\* line_geometry.interpolate(distance) on a projected line parallel to the x
\* axis, for a distance within the line
Interpolate(coords, dist) ==
    LET p == ll_to_osgb(coords[1])
        q == ll_to_osgb(coords[2])
    IN  <<IF q[1] >= p[1] THEN p[1] + dist ELSE p[1] - dist, p[2]>>

\* the lines of the runs: one point, or two points on a common y
LineXs == {5 * i : i \in (-MaxLineSteps)..(2 * NumDemTiles + MaxLineSteps)}
LineYs == {5 * j : j \in 0..(2 + MaxLineSteps)}
Lines ==
    {<<<<x0, y0>>>> : x0 \in LineXs, y0 \in LineYs}
    \cup {<<<<x0, y0>>, <<x1, y0>>>> : x0 \in LineXs, x1 \in LineXs, y0 \in LineYs}

InitPipeline ==
    /\ pc = "start"
    /\ dem_folder \in DemFolders
    /\ line \in Lines
    /\ extents = <<>>
    /\ InitNoWalk /\ InitLists /\ InitCache

Raise(kind) ==
    [op |-> "terrain_module", kind |-> kind, path |-> 0, x |-> 0, y |-> 0, val |-> 0]

\* line 35
LoadExtents ==
    /\ pc = "start"
    /\ extents' = load_extents(dem_folder)
    /\ pc' = "line"
    /\ UNCHANGED <<inputVars, walkVars, listVars, cacheVars, ret, repeats>>

\* lines 37-55: LineString refuses fewer than two coordinates; otherwise the
\* line is projected, measured and the increment chosen
BuildLine ==
    /\ pc = "line"
    /\ IF Len(line) < 2
       THEN /\ pc' = "raised"
            /\ ret' = Raise("ValueError")
            /\ UNCHANGED <<length, increment>>
       ELSE /\ pc' = "loop"
            /\ length' = ProjectedLength(line)
            /\ increment' = determine_length_increment(ProjectedLength(line))
            /\ ret' = ret
    /\ currentdistance' = 0
    /\ x' = <<>>
    /\ y' = <<>>
    /\ elevation_profile' = <<>>
    /\ UNCHANGED <<inputVars, extents, positions, nsamples, cacheVars, repeats>>

\* the point of the line at currentdistance, back in geographic coordinates
SamplePoint == osgb_to_ll(Interpolate(line, currentdistance))

\* faulty variant: a sample that cannot be located is skipped and the loop goes on
SampleStep_skip ==
    /\ pc = "loop"
    /\ RangeHasNext(currentdistance, length)
    /\ LET pt == SamplePoint
           tile == get_tile_path_for_point(extents, pt[1], pt[2])
           z == get_value_from_dem_tile(cache, tile.path, pt[1], pt[2])
       IN  /\ x' = Append(x, pt[1])
           /\ y' = Append(y, pt[2])
           /\ positions' = Append(positions, currentdistance)
           /\ nsamples' = nsamples + 1
           /\ currentdistance' = currentdistance + increment
           /\ pc' = "loop"
           /\ IF tile.kind # "return"
              THEN UNCHANGED <<elevation_profile, ret, cacheVars>>
              ELSE /\ CachedLoad(tile.path)
                   /\ IF z.kind # "return"
                      THEN UNCHANGED <<elevation_profile, ret>>
                      ELSE /\ elevation_profile' = Append(elevation_profile, z.val)
                           /\ ret' = ret
    /\ UNCHANGED <<inputVars, extents, length, increment, repeats>>

\* one iteration of the for loop, lines 57-66: an exception of
\* get_tile_path_for_point or get_value_from_dem_tile leaves terrain_module
SampleStep ==
    /\ pc = "loop"
    /\ RangeHasNext(currentdistance, length)
    /\ LET pt == SamplePoint
           tile == get_tile_path_for_point(extents, pt[1], pt[2])
           z == get_value_from_dem_tile(cache, tile.path, pt[1], pt[2])
       IN  /\ x' = Append(x, pt[1])
           /\ y' = Append(y, pt[2])
           /\ positions' = Append(positions, currentdistance)
           /\ nsamples' = nsamples + 1
           /\ IF tile.kind # "return"
              THEN /\ pc' = "raised"
                   /\ ret' = Raise(tile.kind)
                   /\ UNCHANGED <<elevation_profile, currentdistance, cacheVars>>
              ELSE /\ CachedLoad(tile.path)
                   /\ IF z.kind # "return"
                      THEN /\ pc' = "raised"
                           /\ ret' = Raise(z.kind)
                           /\ UNCHANGED <<elevation_profile, currentdistance>>
                      ELSE /\ elevation_profile' = Append(elevation_profile, z.val)
                           /\ currentdistance' = currentdistance + increment
                           /\ pc' = "loop"
                           /\ ret' = ret
    /\ UNCHANGED <<inputVars, extents, length, increment, repeats>>

\* line 68
ReturnProfile ==
    /\ pc = "loop"
    /\ ~RangeHasNext(currentdistance, length)
    /\ pc' = "returned"
    /\ ret' = [op |-> "terrain_module", kind |-> "return", path |-> 0,
               x |-> 0, y |-> 0, val |-> elevation_profile]
    /\ UNCHANGED <<inputVars, extents, walkVars, listVars, cacheVars, repeats>>

NextPipeline == LoadExtents \/ BuildLine \/ SampleStep \/ ReturnProfile

SpecPipeline == InitPipeline /\ [][NextPipeline]_vars

\* ---------------------------------------------------------------- claims

\* C1: for every length >= 0 the increment is max(floor(length/100), 1) below
\* 60000 and floor(length/600) from 60000 on; length 0 gives 1.
C1_IncrementFormula ==
    pc # "start" =>
        /\ (length < 60000 => increment = Max2(length \div 100, 1))
        /\ (length >= 60000 => increment = length \div 600)
        /\ (length = 0 => increment = 1)

C1_Witness == pc = "incr" /\ length = 0 /\ increment = 1

\* C2: the number of sample positions walked at the policy's increment is at
\* most 600 for every length.
C2_AtMost600 == pc = "walked" => nsamples <= 600

\* C10: below 60000 at most 100 positions, from 60000 on exactly 600; length
\* 30000 gives increment 300 and 100 positions.
C10_SampleCounts ==
    pc = "walked" =>
        /\ (length < 60000 => nsamples <= 100)
        /\ (length >= 60000 => nsamples = 600)
        /\ (length = 30000 => increment = 300 /\ nsamples = 100)

\* C3 as stated: the walk produces exactly floor(L / k) positions, position i
\* at distance i * k, each below L.
C3_FloorCount ==
    pc = "walked" =>
        /\ Len(positions) = length \div increment
        /\ \A i \in 1..Len(positions) :
              positions[i] = (i - 1) * increment /\ positions[i] < length

\* C3 amended: the walk produces exactly ceil(L / k) positions, position i at
\* distance i * k, each below L, in increasing order.
C3_CeilCount ==
    pc = "walked" =>
        /\ Len(positions) = CeilDiv(length, increment)
        /\ \A i \in 1..Len(positions) :
              positions[i] = (i - 1) * increment /\ positions[i] < length
        /\ \A i \in 1..(Len(positions) - 1) : positions[i] < positions[i + 1]

C3_Witness ==
    pc = "walked" /\ length = 5 /\ increment = 2 /\ positions = <<0, 2, 4>>

\* the tiles of the folder whose extent holds the point, bounds included
TilesHolding(xx, yy) ==
    {p \in {dem_folder[i] : i \in 1..Len(dem_folder)} :
        /\ Dataset(p).bounds[1] <= xx /\ xx <= Dataset(p).bounds[3]
        /\ Dataset(p).bounds[2] <= yy /\ yy <= Dataset(p).bounds[4]}

\* C4: get_tile_path_for_point returns only a tile whose extent holds the point
\* and raises its error exactly when no extent of the index holds it; with the
\* extents [0,0,10,10] and [10,0,20,10], (5,5) is in tile 1, (15,5) in tile 2
\* and (25,5) in none.
C4_LocateContainment ==
    (pc = "called" /\ ret.op = "get_tile_path_for_point") =>
        /\ (ret.kind = "return" => ret.path \in TilesHolding(ret.x, ret.y))
        /\ (ret.kind = "ValueError" <=> TilesHolding(ret.x, ret.y) = {})
        /\ ret.kind \in {"return", "ValueError"}
        /\ (Len(dem_folder) = 2 /\ {dem_folder[1], dem_folder[2]} = {1, 2} /\ ret.y = 5) =>
              /\ (ret.x = 5 => ret.kind = "return" /\ ret.path = 1)
              /\ (ret.x = 15 => ret.kind = "return" /\ ret.path = 2)
              /\ (ret.x = 25 => ret.kind = "ValueError")

C4_Witness ==
    /\ pc = "called" /\ ret.op = "get_tile_path_for_point"
    /\ dem_folder = <<1, 2>> /\ ret.x = 25 /\ ret.y = 5 /\ ret.kind = "ValueError"

\* the oldest cached path by time of last call
OldestUsed(c) ==
    CHOOSE k \in CacheKeys(c) : \A j \in CacheKeys(c) : lastUse[k] <= lastUse[j]

\* C5: the cache never holds more than 32 entries, and a miss on a full cache
\* evicts exactly the entry whose last hit or insertion is oldest.
C5_LruBound ==
    [][/\ Len(cache') <= 32
       /\ (clock' = clock + 1 /\ ret'.path \notin CacheKeys(cache) /\ Len(cache) = 32) =>
             /\ CacheKeys(cache) \ CacheKeys(cache') = {OldestUsed(cache)}
             /\ CacheKeys(cache') \ CacheKeys(cache) = {ret'.path}
             /\ Len(cache') = 32]_vars

C5_Witness ==
    /\ Len(cache) = 32 /\ opens[33] = 1 /\ repeats = 1
    /\ 1 \in CacheKeys(cache) /\ 2 \notin CacheKeys(cache)

\* C6 as stated: a call for any tile path seen before returns the content of a
\* fresh decode, leaves the path's open count at one and makes the entry the
\* most recently used.
C6_SeenNeverDecodedAgain ==
    [][(clock' = clock + 1 /\ lastUse[ret'.path] > 0) =>
          /\ ret'.val = load_dataset(ret'.path)
          /\ opens'[ret'.path] = 1
          /\ cache'[Len(cache')].key = ret'.path]_vars

\* C6 amended: a call for a tile path that is still cached returns the content
\* of a fresh decode, opens no dataset, keeps the cached paths and makes the
\* entry the most recently used.
C6_CachedNotDecodedAgain ==
    [][(clock' = clock + 1 /\ ret'.path \in CacheKeys(cache)) =>
          /\ ret'.val = load_dataset(ret'.path)
          /\ opens' = opens
          /\ CacheKeys(cache') = CacheKeys(cache)
          /\ Len(cache') = Len(cache)
          /\ cache'[Len(cache')].key = ret'.path]_vars

C6_Witness ==
    /\ ret.op = "load_dataset" /\ repeats = 1 /\ clock > 32
    /\ opens[ret.path] = 1 /\ ret.path # cache[Len(cache) - 1].key
    /\ cache[Len(cache)].key = ret.path /\ lastUse[ret.path] = clock
    /\ ret.path < 32

\* the pixel of tile p under the point: floor((top - y) / 5), floor((x - left) / 5)
PixelOf(p, xx, yy) ==
    <<(Dataset(p).bounds[4] - yy) \div 5, (xx - Dataset(p).bounds[1]) \div 5>>

InGrid(p, rc) ==
    0 <= rc[1] /\ rc[1] < Dataset(p).height /\ 0 <= rc[2] /\ rc[2] < Dataset(p).width

\* C7: get_value_from_dem_tile returns the grid value at the floored row and
\* column only when both lie inside the grid, and fails whenever one of them,
\* negative ones included, lies outside.
C7_PixelBounds ==
    (pc = "called" /\ ret.op = "get_value_from_dem_tile") =>
        LET rc == PixelOf(ret.path, ret.x, ret.y)
        IN  /\ (ret.kind = "return" =>
                   InGrid(ret.path, rc) /\ ret.val = Dataset(ret.path).band[rc])
            /\ (~InGrid(ret.path, rc) => ret.kind # "return")

\* sample i of the run was located and read without an error
SampleOk(i) ==
    LET tile == get_tile_path_for_point(extents, x[i], y[i])
    IN  /\ tile.kind = "return"
        /\ get_value_from_dem_tile(cache, tile.path, x[i], y[i]).kind = "return"

\* C8: a failure to locate or to read a sample leaves terrain_module with the
\* error and without a profile; a returned profile holds one elevation per
\* position of the walk, in path order.
C8_AllOrNothing ==
    /\ pc = "returned" =>
          /\ ret.kind = "return"
          /\ Len(ret.val) = RangeLength(0, length, increment)
          /\ Len(ret.val) = Len(positions)
          /\ \A i \in 1..Len(positions) :
                /\ positions[i] = (i - 1) * increment
                /\ SampleOk(i)
                /\ ret.val[i] =
                      get_value_from_dem_tile(cache,
                          get_tile_path_for_point(extents, x[i], y[i]).path,
                          x[i], y[i]).val
    /\ pc = "raised" =>
          /\ ret.kind \in {"ValueError", "IndexError"}
          /\ ret.val = 0
          /\ Len(line) >= 2 =>
                /\ Len(x) = Len(elevation_profile) + 1
                /\ ~SampleOk(Len(x))
    /\ pc = "loop" => \A i \in 1..Len(x) : SampleOk(i)

C8_Witness ==
    pc = "raised" /\ Len(elevation_profile) >= 2 /\ ret.kind = "IndexError"

\* C9: with an empty tile folder, or a line of fewer than two points or of
\* length zero, terrain_module reports an error before it locates or samples
\* any position, and returns no profile.
C9_FailFast ==
    (dem_folder = <<>> \/ Len(line) < 2 \/ (pc \notin {"start", "line"} /\ length = 0)) =>
        /\ pc # "returned"
        /\ x = <<>>

====
